---------------------------- MODULE Spec2Model ----------------------------
(***************************************************************************)
(* Model of the trading decision core of ALFATELECOM/LATEST-ALGO:          *)
(*   - RiskManager   (backend/app/services/risk_manager.py)                *)
(*   - BaseStrategy  (backend/app/strategies/base_strategy.py)             *)
(*                                                                         *)
(* Amounts are whole rupees.  Python floats are modelled by exact integer  *)
(* and rational arithmetic: a fraction such as MAX_PORTFOLIO_RISK = 0.02   *)
(* is held in hundredths (2), a risk percentage is held as the pair        *)
(* num/den, and every comparison is cross-multiplied.  The prices of the   *)
(* input sets are multiples of 100, so price * (1 -+ pct/100) is a whole   *)
(* number, as it is in the floating-point evaluation of the code.          *)
(***************************************************************************)
EXTENDS Integers, Sequences, FiniteSets, TLC

VARIABLES
    today,              \* datetime.now().date(), the environment's calendar
    daily_trades,       \* RiskManager.daily_trades
    daily_pnl,          \* RiskManager.daily_pnl
    daily_reset_date,   \* RiskManager.daily_reset_date
    portfolio_value,    \* RiskManager.portfolio_value
    positions,          \* RiskManager.positions : symbol -> position dict
    last,               \* the last completed RiskManager call and what it returned
    pc,                 \* position of each concurrent caller of the RiskManager
    enabled,            \* BaseStrategy.enabled
    s_positions,        \* BaseStrategy.positions : symbol -> position dict
    trades,             \* BaseStrategy.trades : trade dicts, oldest first
    s_last,             \* the last completed Strategy call and what it returned
    variant,            \* the class of the Strategy instance
    config,             \* BaseStrategy.config, the fields that are varied
    strikes,            \* the strikes an options strategy keeps, 0 until first use
    series_columns      \* the columns, after the call, of the series last given to the Strategy

rm_vars == <<daily_trades, daily_pnl, daily_reset_date, portfolio_value, positions, last>>
instance_vars == <<variant, config, strikes>>
strategy_vars == <<enabled, s_positions, trades, s_last, variant, config, strikes,
                   series_columns>>
vars == <<today, daily_trades, daily_pnl, daily_reset_date, portfolio_value,
          positions, last, pc, enabled, s_positions, trades, s_last,
          variant, config, strikes, series_columns>>

-----------------------------------------------------------------------------
(* Settings (backend/app/core/config.py) *)

MAX_POSITION_SIZE == 100000
MAX_DAILY_LOSS == 5000
MAX_DAILY_TRADES == 50
DEFAULT_STOP_LOSS_PERCENT == 2
DEFAULT_TRAILING_STOP_PERCENT == 1
\* MAX_PORTFOLIO_RISK = 0.02 and MAX_CORRELATION_RISK = 0.3, in hundredths
MAX_PORTFOLIO_RISK_E2 == 2
MAX_CORRELATION_RISK_E2 == 30

(* StrategyConfig defaults (backend/app/strategies/base_strategy.py) *)
config_max_position_size == 10000
config_stop_loss_percent == 2
config_trailing_stop_percent == 1
config_target_percent == 4
\* risk_per_trade = 0.02, in hundredths
config_risk_per_trade_E2 == 2

(* RSIStrategy parameters (backend/app/strategies/rsi_strategy.py) *)
rsi_period == 14
oversold_threshold == 30
overbought_threshold == 70
\* RSIDivergenceStrategy's defaults; min_divergence_strength in hundredths
lookback_period == 20
min_divergence_strength_E2 == 10
\* the MACD strategies' defaults
slow_period == 26
signal_period == 9
histogram_threshold == 0
histogram_momentum_periods == 3
\* the options strategies: the bars they require, and their default quantity
options_min_bars == 20
options_quantity == 1
expiration_days == 30
\* MACD values are held as integers, in units of 1/MacdUnit
MacdUnit == 100000

-----------------------------------------------------------------------------
(* Bounds of the model *)

\* config.max_trades_per_day of the modelled StrategyConfig (the dataclass
\* default is 10); Strategy.trades is followed to one trade past it
MaxTradesPerDay == 2

MaxDay == 1             \* the calendar runs over the dates 0..MaxDay
MaxOverCap == 1         \* SpecDaily follows daily_trades up to MAX_DAILY_TRADES + MaxOverCap
MaxTradesFollowed == 2  \* Spec follows daily_trades up to MaxTradesFollowed
MaxPnlSteps == 2        \* daily_pnl is followed within MaxPnlSteps P&L updates of zero

Symbols == {"XYZ", "ABC"}
TradeSymbols == {"XYZ"}
Quantities == {100, 400}
Prices == {300, 500}
Sides == {"BUY", "SELL"}
\* Optional[float]: <<>> is None, <<x>> is the value x
StopLosses == {<<>>, <<480>>, <<510>>}
PnlInputs == {-2500, 2500}
PositionInputs == { [value |-> 40000, max_loss |-> 1000],
                    [value |-> 100000, max_loss |-> 2000] }
Callers == {"c1", "c2"}

\* Position dicts handed to Strategy.update_position
StrategyPositionInputs == { [side |-> "BUY", entry_price |-> 500] }
\* The price series handed to generate_signals, as what RSIStrategy reads of
\* it: the number of bars, the last close and the last two RSI values that the
\* indicator library computes from it
SeriesInputs ==
    [bars : {rsi_period, rsi_period + 1}, close : Prices,
     rsi : { <<35, 25>>, <<25, 20>>, <<30, 29>>, <<50, 50>>, <<70, 71>>,
             <<65, 75>>, <<75, 80>> }]

\* The arguments of validate_trade
TradeInputs ==
    [symbol : TradeSymbols, quantity : Quantities, price : Prices, side : Sides,
     stop_loss : StopLosses]
\* The trades validated while the daily counters are followed to their caps
DailyTradeInputs ==
    { [symbol |-> "XYZ", quantity |-> 100, price |-> 500, side |-> "BUY",
       stop_loss |-> <<>>],
      [symbol |-> "XYZ", quantity |-> 400, price |-> 300, side |-> "SELL",
       stop_loss |-> <<480>>] }

-----------------------------------------------------------------------------
(* Python helpers *)

Abs(x) == IF x < 0 THEN -x ELSE x

\* int(a / b) for b # 0: the quotient truncated toward zero
TruncDiv(a, b) ==
    IF (a >= 0) = (b > 0) THEN Abs(a) \div Abs(b) ELSE -(Abs(a) \div Abs(b))

\* x * (1 + pct/100), pct possibly negative
PercentOf(x, pct) == TruncDiv(x * (100 + pct), 100)

\* dict.get(key, default)
Get(d, key, default) == IF key \in DOMAIN d THEN d[key] ELSE default

RECURSIVE SumOver(_, _, _)
\* sum(pos.get(key, 0) for pos in d.values()), over the symbols S of d
SumOver(d, S, key) ==
    IF S = {} THEN 0
    ELSE LET s == CHOOSE x \in S : TRUE
         IN  Get(d[s], key, 0) + SumOver(d, S \ {s}, key)

SumValues(d, key) == SumOver(d, DOMAIN d, key)

-----------------------------------------------------------------------------
(* RiskManager: the pure parts *)

\* The daily counters as one value: [trades, pnl, date]
Counters == [trades |-> daily_trades, pnl |-> daily_pnl, date |-> daily_reset_date]

\* (validate_trade and increment_daily_trades say nothing of pc: the caller
\* that runs them does)

\* The body of reset_daily_metrics: the counters after reconciling them with
\* the date `now`
Reconcile(c, now) ==
    IF now # c.date THEN [trades |-> 0, pnl |-> 0, date |-> now] ELSE c

\* A risk percentage (numerator / denominator) * 1, denominator > 0
Zero == [num |-> 0, den |-> 1]

\* (amount / portfolio) * 100 if portfolio > 0 else 0
RiskPercentage(amount, portfolio) ==
    IF portfolio > 0 THEN [num |-> amount * 100, den |-> portfolio] ELSE Zero

\* r >= MAX_PORTFOLIO_RISK * k, for k in {100, 75, 50}
AtLeastRiskTimes(r, k) == r.num * 100 >= MAX_PORTFOLIO_RISK_E2 * k * r.den

\* r > MAX_PORTFOLIO_RISK * 100
ExceedsPortfolioRisk(r) == r.num > MAX_PORTFOLIO_RISK_E2 * r.den

\* r > MAX_PORTFOLIO_RISK * k
MoreThanRiskTimes(r, k) == r.num * 100 > MAX_PORTFOLIO_RISK_E2 * k * r.den

\* Mutant of _determine_risk_level: the thresholds compared with > instead of >=
Mutant_risk_level_strict(risk_percentage) ==
    IF MoreThanRiskTimes(risk_percentage, 100) THEN "CRITICAL"
    ELSE IF MoreThanRiskTimes(risk_percentage, 75) THEN "HIGH"
    ELSE IF MoreThanRiskTimes(risk_percentage, 50) THEN "MEDIUM"
    ELSE "LOW"

\* Mutant of _determine_risk_level: the MEDIUM threshold tested before the HIGH one
Mutant_risk_level_order(risk_percentage) ==
    IF AtLeastRiskTimes(risk_percentage, 100) THEN "CRITICAL"
    ELSE IF AtLeastRiskTimes(risk_percentage, 50) THEN "MEDIUM"
    ELSE IF AtLeastRiskTimes(risk_percentage, 75) THEN "HIGH"
    ELSE "LOW"

_determine_risk_level(risk_percentage) ==
    IF AtLeastRiskTimes(risk_percentage, 100) THEN "CRITICAL"
    ELSE IF AtLeastRiskTimes(risk_percentage, 75) THEN "HIGH"
    ELSE IF AtLeastRiskTimes(risk_percentage, 50) THEN "MEDIUM"
    ELSE "LOW"

\* _check_correlation_risk that checks with any number of tracked positions
Mutant_correlation_any_count(position_value, pos, pv) ==
    IF (SumValues(pos, "value") + position_value) * 100 > pv * MAX_CORRELATION_RISK_E2
    THEN <<"Adding this position may increase correlation risk">>
    ELSE <<>>

\* Mutant of _check_correlation_risk: the check made only above two positions
Mutant_correlation_above_two(position_value, pos, pv) ==
    IF Cardinality(DOMAIN pos) > 2
         /\ (SumValues(pos, "value") + position_value) * 100
                > pv * MAX_CORRELATION_RISK_E2
    THEN <<"Adding this position may increase correlation risk">>
    ELSE <<>>

\* _check_correlation_risk: the warnings it returns, given the position map
\* and the portfolio value
_check_correlation_risk(position_value, pos, pv) ==
    IF Cardinality(DOMAIN pos) > 1
         /\ (SumValues(pos, "value") + position_value) * 100
                > pv * MAX_CORRELATION_RISK_E2
    THEN <<"Adding this position may increase correlation risk">>
    ELSE <<>>

\* The PositionRisk of an early return of validate_trade
Rejected(symbol, price, warning) ==
    [symbol |-> symbol, quantity |-> 0, entry_price |-> price,
     current_price |-> price, stop_loss |-> 0, target_price |-> 0,
     max_loss |-> 0, risk_percentage |-> Zero, risk_level |-> "CRITICAL",
     is_valid |-> FALSE, warnings |-> <<warning>>]

\* max_loss of validate_trade: signed by the side
MaxLoss(price, stop, quantity, side) ==
    IF side = "BUY" THEN (price - stop) * quantity ELSE (stop - price) * quantity

\* Mutant of IsValid: the CRITICAL level not consulted
Mutant_valid_without_level(warnings, risk_level) == Len(warnings) = 0

\* is_valid of validate_trade
IsValid(warnings, risk_level) == Len(warnings) = 0 /\ risk_level # "CRITICAL"

\* Mutant of SizedQuantity: the shrunk quantity rounded up instead of truncated
Mutant_quantity_rounded_up(quantity, price) ==
    IF quantity * price > MAX_POSITION_SIZE
    THEN TruncDiv(MAX_POSITION_SIZE + price - 1, price)
    ELSE quantity

\* quantity of validate_trade after the maximum-position-size check
SizedQuantity(quantity, price) ==
    IF quantity * price > MAX_POSITION_SIZE
    THEN TruncDiv(MAX_POSITION_SIZE, price)
    ELSE quantity

\* The part of validate_trade after the two daily checks
Assess(symbol, quantity0, price, side, stop_loss0, pos, pv) ==
    LET quantity       == SizedQuantity(quantity0, price)
        position_value == quantity * price
        stop_loss      == IF stop_loss0 = <<>>
                          THEN IF side = "BUY"
                               THEN PercentOf(price, -DEFAULT_STOP_LOSS_PERCENT)
                               ELSE PercentOf(price, DEFAULT_STOP_LOSS_PERCENT)
                          ELSE stop_loss0[1]
        max_loss       == MaxLoss(price, stop_loss, quantity, side)
        risk_pct       == RiskPercentage(max_loss, pv)
        risk_level     == _determine_risk_level(risk_pct)
        warnings       ==
            (IF ExceedsPortfolioRisk(risk_pct)
             THEN <<"Position risk exceeds portfolio limit">> ELSE <<>>)
            \o (IF position_value * 10 > MAX_POSITION_SIZE * 8
                THEN <<"Position size is close to maximum limit">> ELSE <<>>)
            \o (IF max_loss * 2 > MAX_DAILY_LOSS
                THEN <<"Potential loss is significant relative to daily limit">>
                ELSE <<>>)
            \o _check_correlation_risk(position_value, pos, pv)
    IN  [symbol |-> symbol, quantity |-> quantity, entry_price |-> price,
         current_price |-> price, stop_loss |-> stop_loss,
         target_price |-> IF side = "BUY" THEN PercentOf(price, 2)
                                          ELSE PercentOf(price, -2),
         max_loss |-> max_loss, risk_percentage |-> risk_pct,
         risk_level |-> risk_level,
         is_valid |-> IsValid(warnings, risk_level),
         warnings |-> warnings]

\* Mutant of PositionRisk: the trade cap tested with > instead of >=
Mutant_cap_strict(symbol, quantity, price, side, stop_loss, c, pos, pv) ==
    IF c.trades > MAX_DAILY_TRADES
    THEN Rejected(symbol, price, "Daily trade limit exceeded")
    ELSE IF c.pnl <= -MAX_DAILY_LOSS
    THEN Rejected(symbol, price, "Daily loss limit exceeded")
    ELSE Assess(symbol, quantity, price, side, stop_loss, pos, pv)

\* validate_trade's PositionRisk, from the reconciled counters c
PositionRisk(symbol, quantity, price, side, stop_loss, c, pos, pv) ==
    IF c.trades >= MAX_DAILY_TRADES
    THEN Rejected(symbol, price, "Daily trade limit exceeded")
    ELSE IF c.pnl <= -MAX_DAILY_LOSS
    THEN Rejected(symbol, price, "Daily loss limit exceeded")
    ELSE Assess(symbol, quantity, price, side, stop_loss, pos, pv)

\* get_portfolio_risk_metrics' RiskMetrics, after _update_portfolio_metrics
RiskMetrics(c, pos, pv) ==
    LET total_risk == SumValues(pos, "max_loss")
        pct        == RiskPercentage(total_risk, pv)
    IN  [current_value |-> pv, current_risk |-> total_risk,
         risk_percentage |-> pct, max_loss |-> total_risk,
         risk_level |-> _determine_risk_level(pct),
         recommendations |->
            (IF ExceedsPortfolioRisk(pct)
             THEN <<"Reduce position sizes to lower portfolio risk">> ELSE <<>>)
            \o (IF c.pnl * 2 < -MAX_DAILY_LOSS
                THEN <<"Consider reducing trading activity due to daily losses">>
                ELSE <<>>)
            \o (IF c.trades * 10 > MAX_DAILY_TRADES * 8
                THEN <<"Approaching daily trade limit">> ELSE <<>>)]

\* Mutant of Violations: the trade cap tested with > instead of >=
Mutant_violations_strict(c, metrics) ==
    (IF c.pnl <= -MAX_DAILY_LOSS THEN <<"Daily loss limit breached">> ELSE <<>>)
    \o (IF c.trades > MAX_DAILY_TRADES
        THEN <<"Daily trade limit breached">> ELSE <<>>)
    \o (IF ExceedsPortfolioRisk(metrics.risk_percentage)
        THEN <<"Portfolio risk limit breached">> ELSE <<>>)

\* check_risk_limits' list of violations
Violations(c, metrics) ==
    (IF c.pnl <= -MAX_DAILY_LOSS THEN <<"Daily loss limit breached">> ELSE <<>>)
    \o (IF c.trades >= MAX_DAILY_TRADES
        THEN <<"Daily trade limit breached">> ELSE <<>>)
    \o (IF ExceedsPortfolioRisk(metrics.risk_percentage)
        THEN <<"Portfolio risk limit breached">> ELSE <<>>)

\* _update_portfolio_metrics: the portfolio value it stores
\* Mutant of _update_portfolio_metrics: the 'max_loss' fields summed
Mutant_metrics_sum_max_loss(pos) == SumValues(pos, "max_loss")

_update_portfolio_metrics(pos) == SumValues(pos, "value")

-----------------------------------------------------------------------------
(* RiskManager: the operations *)

Call(op, rolled, args, res) == [op |-> op, rolled |-> rolled, args |-> args, res |-> res]

SetCounters(c) ==
    /\ daily_trades' = c.trades
    /\ daily_pnl' = c.pnl
    /\ daily_reset_date' = c.date

\* The date differs from the one the counters were last reset on
Rollover == today # daily_reset_date

reset_daily_metrics ==
    /\ SetCounters(Reconcile(Counters, today))
    /\ last' = Call("reset_daily_metrics", Rollover, <<>>, <<>>)
    /\ UNCHANGED <<today, portfolio_value, positions, pc, strategy_vars>>

validate_trade(a) ==
    LET c == Reconcile(Counters, today)
    IN  /\ SetCounters(c)
        /\ last' = Call("validate_trade", Rollover, a,
                        PositionRisk(a.symbol, a.quantity, a.price, a.side,
                                     a.stop_loss, c, positions, portfolio_value))
        /\ UNCHANGED <<today, portfolio_value, positions, strategy_vars>>

update_position(symbol, position) ==
    LET pos == [s \in DOMAIN positions \cup {symbol} |->
                    IF s = symbol THEN position ELSE positions[s]]
    IN  /\ positions' = pos
        /\ portfolio_value' = _update_portfolio_metrics(pos)
        /\ last' = Call("update_position", FALSE, <<>>, <<>>)
        /\ UNCHANGED <<today, daily_trades, daily_pnl, daily_reset_date, pc,
                       strategy_vars>>

remove_position(symbol) ==
    /\ IF symbol \in DOMAIN positions
       THEN LET pos == [s \in DOMAIN positions \ {symbol} |-> positions[s]]
            IN  /\ positions' = pos
                /\ portfolio_value' = _update_portfolio_metrics(pos)
       ELSE UNCHANGED <<positions, portfolio_value>>
    /\ last' = Call("remove_position", FALSE, <<>>, <<>>)
    /\ UNCHANGED <<today, daily_trades, daily_pnl, daily_reset_date, pc,
                   strategy_vars>>

\* stop_loss_percent if given, else self.default_stop_loss_percent
OrDefault(optional, default) == IF optional = <<>> THEN default ELSE optional[1]

\* RiskManager.calculate_position_size without the portfolio risk limit
Mutant_size_without_portfolio_limit(symbol, price, risk_amount, stop_loss_percent, pv) ==
    LET pct == OrDefault(stop_loss_percent, DEFAULT_STOP_LOSS_PERCENT)
    IN  IF price * pct <= 0 THEN 0
        ELSE LET position_size == TruncDiv(risk_amount * 100, price * pct)
                 max_shares    == TruncDiv(MAX_POSITION_SIZE, price)
                 by_size       == IF position_size < max_shares THEN position_size
                                  ELSE max_shares
             IN  IF by_size > 0 THEN by_size ELSE 0

\* RiskManager.calculate_position_size: the value it returns with portfolio
\* value pv.  risk_per_share = price - price * (1 - pct / 100) = price * pct / 100,
\* and max_risk_value = pv * max_portfolio_risk.
calculate_position_size_result(symbol, price, risk_amount, stop_loss_percent, pv) ==
    LET pct == OrDefault(stop_loss_percent, DEFAULT_STOP_LOSS_PERCENT)
    IN  IF price * pct <= 0 THEN 0
        ELSE LET position_size   == TruncDiv(risk_amount * 100, price * pct)
                 max_shares      == TruncDiv(MAX_POSITION_SIZE, price)
                 by_size         == IF position_size < max_shares THEN position_size
                                    ELSE max_shares
                 max_risk_shares == TruncDiv(pv * MAX_PORTFOLIO_RISK_E2, price * pct)
                 by_risk         == IF by_size < max_risk_shares THEN by_size
                                    ELSE max_risk_shares
             IN  IF by_risk > 0 THEN by_risk ELSE 0

calculate_position_size(symbol, price, risk_amount, stop_loss_percent) ==
    /\ last' = Call("calculate_position_size", FALSE,
                    [symbol |-> symbol, price |-> price, risk_amount |-> risk_amount,
                     stop_loss_percent |-> stop_loss_percent],
                    calculate_position_size_result(symbol, price, risk_amount,
                                                   stop_loss_percent, portfolio_value))
    /\ UNCHANGED <<today, daily_trades, daily_pnl, daily_reset_date,
                   portfolio_value, positions, pc, strategy_vars>>

Max(a, b) == IF a > b THEN a ELSE b
Min(a, b) == IF a < b THEN a ELSE b

\* RiskManager.calculate_trailing_stop without the initial stop
Mutant_trailing_without_initial_stop(entry_price, current_price, side, trailing_percent) ==
    LET pct == OrDefault(trailing_percent, DEFAULT_TRAILING_STOP_PERCENT)
    IN  IF side = "BUY" THEN PercentOf(current_price, -pct)
        ELSE PercentOf(current_price, pct)

\* RiskManager.calculate_trailing_stop: the value it returns
calculate_trailing_stop_result(entry_price, current_price, side, trailing_percent) ==
    LET pct == OrDefault(trailing_percent, DEFAULT_TRAILING_STOP_PERCENT)
    IN  IF side = "BUY"
        THEN LET trailing_stop == PercentOf(current_price, -pct)
                 initial_stop  == PercentOf(entry_price, -DEFAULT_STOP_LOSS_PERCENT)
             IN  Max(trailing_stop, initial_stop)
        ELSE LET trailing_stop == PercentOf(current_price, pct)
                 initial_stop  == PercentOf(entry_price, DEFAULT_STOP_LOSS_PERCENT)
             IN  Min(trailing_stop, initial_stop)

calculate_trailing_stop(entry_price, current_price, side, trailing_percent) ==
    /\ last' = Call("calculate_trailing_stop", FALSE,
                    [entry_price |-> entry_price, current_price |-> current_price,
                     side |-> side, trailing_percent |-> trailing_percent],
                    calculate_trailing_stop_result(entry_price, current_price, side,
                                                   trailing_percent))
    /\ UNCHANGED <<today, daily_trades, daily_pnl, daily_reset_date,
                   portfolio_value, positions, pc, strategy_vars>>

update_daily_pnl(pnl) ==
    /\ Abs(daily_pnl + pnl) <= MaxPnlSteps * 2500
    /\ SetCounters(Reconcile([Counters EXCEPT !.pnl = @ + pnl], today))
    /\ last' = Call("update_daily_pnl", Rollover, <<pnl>>, <<>>)
    /\ UNCHANGED <<today, portfolio_value, positions, pc, strategy_vars>>

\* `followed` is the count up to which the model follows daily_trades
increment_daily_trades(followed) ==
    /\ daily_trades < followed
    /\ SetCounters(Reconcile([Counters EXCEPT !.trades = @ + 1], today))
    /\ last' = Call("increment_daily_trades", Rollover, <<>>, <<>>)
    /\ UNCHANGED <<today, portfolio_value, positions, strategy_vars>>

get_portfolio_risk_metrics ==
    LET pv == _update_portfolio_metrics(positions)
    IN  /\ portfolio_value' = pv
        /\ last' = Call("get_portfolio_risk_metrics", Rollover, <<>>,
                        RiskMetrics(Counters, positions, pv))
        /\ UNCHANGED <<today, daily_trades, daily_pnl, daily_reset_date,
                       positions, pc, strategy_vars>>

check_risk_limits ==
    LET pv == _update_portfolio_metrics(positions)
    IN  /\ portfolio_value' = pv
        /\ last' = Call("check_risk_limits", Rollover, <<>>,
                        Violations(Counters, RiskMetrics(Counters, positions, pv)))
        /\ UNCHANGED <<today, daily_trades, daily_pnl, daily_reset_date,
                       positions, pc, strategy_vars>>

\* Inputs of the sizing helpers: prices at, below and above the position size
\* limits, risk amounts of either sign, and stop-loss percentages
StopLossPercents == { 0, 2, 5 }
OptionalPercents == { <<>>, <<0>>, <<5>> }
StrategySizingPrices == { -100, 0, 300, 500, 20000 }
SizingPrices == { 0, 300, 500, 200000 }
RiskAmounts == { -200, 0, 1000, 100000 }

\* Inputs of the trailing stops: the entry price of the open position, the
\* current prices it sees, and the configured percentages
EntryPrices == { 500, 1000 }
CurrentPrices == { 400, 500, 600, 700 }
TrailingConfigs == [stop_loss_percent : {0, 2}, trailing_stop_percent : {0, 1}]

\* The classes a Strategy instance may have
Variants ==
    { "RSIStrategy", "RSIDivergenceStrategy", "MACDStrategy",
      "MACDHistogramStrategy", "MACDZeroLineStrategy", "IronCondorStrategy",
      "ButterflyStrategy", "StraddleStrategy", "StrangleStrategy" }
\* Last closes of the series handed to the indicator strategies; the largest is
\* above config.max_position_size
Closes == { 300, 500, 20000 }
\* Series as RSIStrategy reads them, with RSI values at the ends of its range
RSIInputs ==
    [bars : {rsi_period, rsi_period + 1}, close : Closes,
     rsi : { <<35, 25>>, <<25, 20>>, <<30, 0>>, <<50, 50>>, <<70, 100>>,
             <<75, 80>> }]
\* Series as RSIDivergenceStrategy reads them: the bars, the last close, whether
\* the installed find_peaks takes the keyword order, and the values of the
\* troughs and peaks of price and RSI in the last lookback_period bars
ExtremaInputs ==
    { [price_troughs |-> <<>>, rsi_troughs |-> <<>>,
       price_peaks |-> <<>>, rsi_peaks |-> <<>>],
      [price_troughs |-> <<500, 480>>, rsi_troughs |-> <<25, 35>>,
       price_peaks |-> <<520>>, rsi_peaks |-> <<60>>],
      [price_troughs |-> <<500, 480>>, rsi_troughs |-> <<25, 30>>,
       price_peaks |-> <<510, 520>>, rsi_peaks |-> <<75, 60>>],
      [price_troughs |-> <<500, 480>>, rsi_troughs |-> <<20, 80>>,
       price_peaks |-> <<510, 520>>, rsi_peaks |-> <<75, 60>>],
      [price_troughs |-> <<480, 500>>, rsi_troughs |-> <<25, 35>>,
       price_peaks |-> <<510, 520>>, rsi_peaks |-> <<60, 75>>] }
RSIDivergenceInputs ==
    [bars : {rsi_period + lookback_period - 1, rsi_period + lookback_period},
     close : Closes, find_peaks_takes_order : BOOLEAN, extrema : ExtremaInputs]
\* Series as the MACD strategies read them: the bars, the last close and the
\* last values of the MACD line, its signal line and the histogram
MACDInputs ==
    [bars : {slow_period + signal_period - 1, slow_period + signal_period},
     close : Closes,
     macd : { <<-50000, 30000>>, <<30000, -50000>>, <<10000, 10000>>,
              <<-20000, 10004>>, <<1200000, 1300000>> },
     macd_signal : { <<-20000, 10000>>, <<10000, 10000>>, <<10000, -20000>> }]
MACDHistogramInputs ==
    [bars : {slow_period + signal_period + histogram_momentum_periods - 1,
             slow_period + signal_period + histogram_momentum_periods},
     close : Closes,
     macd_histogram : { <<-3000, -1000, 2000>>, <<3000, 0, 2000>>,
                        <<-100000, 0, 4>>, <<3000, 1000, -2000>>,
                        <<-3000, 0, -2000>>, <<0, 0, 0>>, <<1000, 2000, 3000>> }]
MACDZeroLineInputs ==
    [bars : {slow_period + signal_period - 1, slow_period + signal_period},
     close : Closes,
     macd : { <<-50000, 30000>>, <<0, 4>>, <<30000, -50000>>, <<0, -2000>>,
              <<0, 0>>, <<10000, 20000>>, <<-500, 200>> }]
\* Series as the options strategies read them: the bars, the last close and
\* the annualised volatility of the closes in hundredths
OptionsInputs ==
    [bars : {options_min_bars - 1, options_min_bars},
     close : { 10000, 10100, 11000 },
     volatility_E2 : { 10, 15, 20, 25, 30, 35, 40 }]

\* The options strategies
OptionsVariants ==
    { "IronCondorStrategy", "ButterflyStrategy", "StraddleStrategy",
      "StrangleStrategy" }
\* Series handed to an options strategy: spots of either sign and zero
SpotInputs ==
    [bars : {options_min_bars - 1, options_min_bars},
     close : { -1000, 0, 1000, 1100 },
     volatility_E2 : { 10, 15, 20, 25, 30, 35, 40 }]
\* Series handed to should_exit_position of an options strategy, which reads
\* their last close only
SpotExitInputs == [close : { -1000, 0, 1000, 1100 }]
\* Open positions handed to should_exit_position, by their age in days
OpenPositionInputs == [age_days : {0, 24, 25}]

-----------------------------------------------------------------------------
(* BaseStrategy and RSIStrategy *)

\* the date of t.get('timestamp', datetime.now())
TradeDate(t, now) == IF "timestamp" \in DOMAIN t THEN t.timestamp ELSE now

\* [t for t in self.trades if ... .date() == today]
TodayTrades(now) == SelectSeq(trades, LAMBDA t : TradeDate(t, now) = now)

\* BaseStrategy.can_trade: the value it returns
can_trade_result(symbol) ==
    IF ~enabled THEN FALSE
    ELSE IF Len(TodayTrades(today)) >= MaxTradesPerDay THEN FALSE
    ELSE TRUE

\* BaseStrategy.calculate_position_size without the max_position_size limit
Mutant_size_without_cap(symbol, price, risk_amount) ==
    IF config.stop_loss_percent <= 0 THEN 0
    ELSE IF price * config.stop_loss_percent <= 0 THEN 0
    ELSE LET position_size == TruncDiv(risk_amount * 100,
                                       price * config.stop_loss_percent)
         IN  IF position_size > 0 THEN position_size ELSE 0

\* BaseStrategy.calculate_position_size; risk_per_share is
\* price - price * (1 - stop_loss_percent / 100) = price * stop_loss_percent / 100
Strategy_calculate_position_size(symbol, price, risk_amount) ==
    IF config.stop_loss_percent <= 0 THEN 0
    ELSE IF price * config.stop_loss_percent <= 0 THEN 0
    ELSE LET position_size == TruncDiv(risk_amount * 100,
                                       price * config.stop_loss_percent)
             max_shares    == TruncDiv(config_max_position_size, price)
             capped        == IF position_size < max_shares THEN position_size
                              ELSE max_shares
         IN  IF capped > 0 THEN capped ELSE 0

\* BaseStrategy.calculate_position_size called by the strategy's user
Strategy_sizing(symbol, price, risk_amount) ==
    /\ s_last' = Call("calculate_position_size", FALSE,
                      [symbol |-> symbol, price |-> price, risk_amount |-> risk_amount],
                      Strategy_calculate_position_size(symbol, price, risk_amount))
    /\ UNCHANGED <<today, rm_vars, pc, enabled, s_positions, trades, instance_vars, series_columns>>

Strategy_calculate_stop_loss(entry_price, signal_type) ==
    IF signal_type = "BUY" THEN PercentOf(entry_price, -config.stop_loss_percent)
    ELSE PercentOf(entry_price, config.stop_loss_percent)

Strategy_calculate_target_price(entry_price, signal_type) ==
    IF signal_type = "BUY" THEN PercentOf(entry_price, config_target_percent)
    ELSE PercentOf(entry_price, -config_target_percent)

\* BaseStrategy.calculate_trailing_stop: the value it returns
Strategy_calculate_trailing_stop(entry_price, current_price, signal_type) ==
    IF signal_type = "BUY"
    THEN LET trailing_stop == PercentOf(current_price, -config.trailing_stop_percent)
         IN  Max(trailing_stop, PercentOf(entry_price, -config.stop_loss_percent))
    ELSE LET trailing_stop == PercentOf(current_price, config.trailing_stop_percent)
         IN  Min(trailing_stop, PercentOf(entry_price, config.stop_loss_percent))

\* BaseStrategy.calculate_trailing_stop called by the strategy's user
Strategy_trailing(entry_price, current_price, signal_type) ==
    /\ s_last' = Call("calculate_trailing_stop", FALSE,
                      [entry_price |-> entry_price, current_price |-> current_price,
                       signal_type |-> signal_type],
                      Strategy_calculate_trailing_stop(entry_price, current_price,
                                                       signal_type))
    /\ UNCHANGED <<today, rm_vars, pc, enabled, s_positions, trades, instance_vars, series_columns>>

\* min(1.0, num / den) as a fraction, den > 0
Confidence(num, den) ==
    IF num > den THEN [num |-> 1, den |-> 1] ELSE [num |-> num, den |-> den]

\* The Signal an RSIStrategy entry builds
RSISignal(symbol, signal_type, price, confidence, reason) ==
    [symbol |-> symbol, signal_type |-> signal_type, price |-> price,
     quantity |-> Strategy_calculate_position_size(symbol, price,
                    (config_max_position_size * config_risk_per_trade_E2) \div 100),
     order_type |-> "MARKET",
     stop_loss |-> Strategy_calculate_stop_loss(price, signal_type),
     target_price |-> Strategy_calculate_target_price(price, signal_type),
     confidence |-> confidence, reason |-> reason]

\* RSIStrategy.generate_signals signalling whenever RSI is beyond a threshold
Mutant_rsi_without_crossing(data, symbol) ==
    LET current_rsi == data.rsi[2]
    IN  IF data.bars < rsi_period + 1 THEN <<>>
        ELSE IF ~can_trade_result(symbol) THEN <<>>
        ELSE IF current_rsi < oversold_threshold
        THEN << RSISignal(symbol, "BUY", data.close,
                          Confidence(oversold_threshold - current_rsi,
                                     oversold_threshold),
                          "RSI oversold") >>
        ELSE IF current_rsi > overbought_threshold
        THEN << RSISignal(symbol, "SELL", data.close,
                          Confidence(current_rsi - overbought_threshold,
                                     100 - overbought_threshold),
                          "RSI overbought") >>
        ELSE <<>>

\* RSIStrategy.generate_signals: the list it returns
generate_signals_result(data, symbol) ==
    LET prev_rsi    == data.rsi[1]
        current_rsi == data.rsi[2]
    IN  IF data.bars < rsi_period + 1 THEN <<>>
        ELSE IF ~can_trade_result(symbol) THEN <<>>
        ELSE IF current_rsi < oversold_threshold /\ prev_rsi >= oversold_threshold
        THEN << RSISignal(symbol, "BUY", data.close,
                          Confidence(oversold_threshold - current_rsi,
                                     oversold_threshold),
                          "RSI oversold") >>
        ELSE IF current_rsi > overbought_threshold
                /\ prev_rsi <= overbought_threshold
        THEN << RSISignal(symbol, "SELL", data.close,
                          Confidence(current_rsi - overbought_threshold,
                                     100 - overbought_threshold),
                          "RSI overbought") >>
        ELSE <<>>

\* f"{x:.4f}" of an indicator value held in units of 1/MacdUnit: the nearest
\* multiple of 1/10000, as a number of units
Format4(x) ==
    LET step == MacdUnit \div 10000
        n    == (Abs(x) + step \div 2) \div step
    IN  IF x < 0 THEN -(n * step) ELSE n * step

\* The Signal a MACD entry builds: sized and priced as the RSI entries are
MACDSignal(symbol, signal_type, price, confidence, reason) ==
    RSISignal(symbol, signal_type, price, confidence, reason)

\* MACDStrategy.generate_signals requiring the line strictly on the other side
\* of the signal line on the previous bar
Mutant_macd_strict_crossover(data, symbol) ==
    LET current_macd   == data.macd[2]
        current_signal == data.macd_signal[2]
        confidence     == Confidence(Abs(current_macd - current_signal), 10 * MacdUnit)
    IN  IF data.bars < slow_period + signal_period THEN <<>>
        ELSE IF ~can_trade_result(symbol) THEN <<>>
        ELSE IF data.macd[1] < data.macd_signal[1] /\ current_macd > current_signal
        THEN << MACDSignal(symbol, "BUY", data.close, confidence,
                           [text |-> "MACD bullish crossover",
                            MACD |-> Format4(current_macd),
                            Signal |-> Format4(current_signal)]) >>
        ELSE IF data.macd[1] > data.macd_signal[1] /\ current_macd < current_signal
        THEN << MACDSignal(symbol, "SELL", data.close, confidence,
                           [text |-> "MACD bearish crossover",
                            MACD |-> Format4(current_macd),
                            Signal |-> Format4(current_signal)]) >>
        ELSE <<>>

\* MACDStrategy.generate_signals: the list it returns.  The histogram the
\* indicator library reports is the line minus the signal line.
MACD_generate_signals_result(data, symbol) ==
    LET prev_macd         == data.macd[1]
        current_macd      == data.macd[2]
        prev_signal       == data.macd_signal[1]
        current_signal    == data.macd_signal[2]
        current_histogram == current_macd - current_signal
    IN  IF data.bars < slow_period + signal_period THEN <<>>
        ELSE IF ~can_trade_result(symbol) THEN <<>>
        ELSE IF prev_macd <= prev_signal /\ current_macd > current_signal
        THEN << MACDSignal(symbol, "BUY", data.close,
                           Confidence(Abs(current_histogram), 10 * MacdUnit),
                           [text |-> "MACD bullish crossover",
                            MACD |-> Format4(current_macd),
                            Signal |-> Format4(current_signal)]) >>
        ELSE IF prev_macd >= prev_signal /\ current_macd < current_signal
        THEN << MACDSignal(symbol, "SELL", data.close,
                           Confidence(Abs(current_histogram), 10 * MacdUnit),
                           [text |-> "MACD bearish crossover",
                            MACD |-> Format4(current_macd),
                            Signal |-> Format4(current_signal)]) >>
        ELSE <<>>

\* MACDHistogramStrategy.generate_signals requiring only slow + signal bars
Mutant_histogram_short_lookback(data, symbol) ==
    LET current_histogram == data.macd_histogram[3]
        momentum_num      == current_histogram - data.macd_histogram[1]
    IN  IF data.bars < slow_period + signal_period THEN <<>>
        ELSE IF ~can_trade_result(symbol) THEN <<>>
        ELSE IF /\ current_histogram > histogram_threshold
                /\ data.macd_histogram[2] <= histogram_threshold
                /\ momentum_num > 0
        THEN << MACDSignal(symbol, "BUY", data.close,
                           Confidence(Abs(momentum_num) * 10,
                                      histogram_momentum_periods * MacdUnit),
                           [text |-> "MACD histogram bullish momentum",
                            Histogram |-> Format4(current_histogram)]) >>
        ELSE <<>>

\* MACDHistogramStrategy.generate_signals: the list it returns.
\* histogram_momentum = (current - histogram[-momentum_periods - 1]) / momentum_periods
\* has the sign of its numerator; the rationale also quotes it.
MACDHistogram_generate_signals_result(data, symbol) ==
    LET old_histogram     == data.macd_histogram[1]
        prev_histogram    == data.macd_histogram[2]
        current_histogram == data.macd_histogram[3]
        momentum_num      == current_histogram - old_histogram
        confidence        == Confidence(Abs(momentum_num) * 10,
                                        histogram_momentum_periods * MacdUnit)
    IN  IF data.bars < slow_period + signal_period + histogram_momentum_periods
        THEN <<>>
        ELSE IF ~can_trade_result(symbol) THEN <<>>
        ELSE IF /\ current_histogram > histogram_threshold
                /\ prev_histogram <= histogram_threshold
                /\ momentum_num > 0
        THEN << MACDSignal(symbol, "BUY", data.close, confidence,
                           [text |-> "MACD histogram bullish momentum",
                            Histogram |-> Format4(current_histogram)]) >>
        ELSE IF /\ current_histogram < -histogram_threshold
                /\ prev_histogram >= -histogram_threshold
                /\ momentum_num < 0
        THEN << MACDSignal(symbol, "SELL", data.close, confidence,
                           [text |-> "MACD histogram bearish momentum",
                            Histogram |-> Format4(current_histogram)]) >>
        ELSE <<>>

\* MACDZeroLineStrategy.generate_signals: the list it returns
MACDZeroLine_generate_signals_result(data, symbol) ==
    LET prev_macd    == data.macd[1]
        current_macd == data.macd[2]
        confidence   == Confidence(Abs(current_macd) * 100, MacdUnit)
    IN  IF data.bars < slow_period + signal_period THEN <<>>
        ELSE IF ~can_trade_result(symbol) THEN <<>>
        ELSE IF prev_macd <= 0 /\ current_macd > 0
        THEN << MACDSignal(symbol, "BUY", data.close, confidence,
                           [text |-> "MACD zero line bullish crossover",
                            MACD |-> Format4(current_macd)]) >>
        ELSE IF prev_macd >= 0 /\ current_macd < 0
        THEN << MACDSignal(symbol, "SELL", data.close, confidence,
                           [text |-> "MACD zero line bearish crossover",
                            MACD |-> Format4(current_macd)]) >>
        ELSE <<>>

\* What a call that raises e leaves in place of its return value
Raised(e) == << [raised |-> e] >>

\* RSIDivergenceStrategy.generate_signals: the list it returns.  The peaks and
\* troughs are what scipy.signal.find_peaks reports of the last lookback_period
\* bars; _find_peaks passes it the keyword order, which it may not accept.
RSIDivergence_generate_signals_result(data, symbol) ==
    LET x == data.extrema
        risk_amount == (config_max_position_size * config_risk_per_trade_E2) \div 100
        bullish ==
            IF Len(x.price_troughs) >= 2 /\ Len(x.rsi_troughs) >= 2
            THEN LET latest_price == x.price_troughs[Len(x.price_troughs)]
                     prev_price   == x.price_troughs[Len(x.price_troughs) - 1]
                     latest_rsi   == x.rsi_troughs[Len(x.rsi_troughs)]
                     prev_rsi     == x.rsi_troughs[Len(x.rsi_troughs) - 1]
                     strength_E2  == Abs(latest_rsi - prev_rsi)
                 IN  IF /\ latest_price < prev_price
                        /\ latest_rsi > prev_rsi
                        /\ strength_E2 >= min_divergence_strength_E2
                     THEN << RSISignal(symbol, "BUY", data.close,
                                       Confidence(strength_E2 * 2, 100),
                                       [text |-> "Bullish RSI divergence",
                                        strength_E2 |-> strength_E2]) >>
                     ELSE <<>>
            ELSE <<>>
        bearish ==
            IF Len(x.price_peaks) >= 2 /\ Len(x.rsi_peaks) >= 2
            THEN LET latest_price == x.price_peaks[Len(x.price_peaks)]
                     prev_price   == x.price_peaks[Len(x.price_peaks) - 1]
                     latest_rsi   == x.rsi_peaks[Len(x.rsi_peaks)]
                     prev_rsi     == x.rsi_peaks[Len(x.rsi_peaks) - 1]
                     strength_E2  == Abs(prev_rsi - latest_rsi)
                 IN  IF /\ latest_price > prev_price
                        /\ latest_rsi < prev_rsi
                        /\ strength_E2 >= min_divergence_strength_E2
                     THEN << RSISignal(symbol, "SELL", data.close,
                                       Confidence(strength_E2 * 2, 100),
                                       [text |-> "Bearish RSI divergence",
                                        strength_E2 |-> strength_E2]) >>
                     ELSE <<>>
            ELSE <<>>
    IN  IF data.bars < rsi_period + lookback_period THEN <<>>
        ELSE IF ~data.find_peaks_takes_order THEN Raised("TypeError")
        ELSE bullish \o bearish

(* The options strategies (backend/app/strategies/options_strategies.py).
   data.volatility_E2 is the annualised volatility the strategy computes from
   the closes, in hundredths. *)

\* n / d < k / 100 and n / d > k / 100 for n >= 0, as the floating-point
\* numbers of the price series compute them: the divisor d may be 0, and then
\* the quotient is inf (n > 0) or nan (n = 0) and nothing is raised; inf is
\* above every k, and nan is neither below nor above
QuotientBelow(n, d, k) ==
    IF d = 0 THEN FALSE
    ELSE IF d > 0 THEN n * 100 < k * d ELSE n * 100 > k * d

QuotientAbove(n, d, k) ==
    IF d = 0 THEN n # 0
    ELSE IF d > 0 THEN n * 100 > k * d ELSE n * 100 < k * d

\* The Signal an options setup builds; band is the percentage of the price at
\* which its stop and target are placed
OptionsSignal(symbol, price, band, confidence_E2, reason) ==
    [symbol |-> symbol, signal_type |-> "BUY", price |-> price,
     quantity |-> options_quantity, order_type |-> "MARKET",
     stop_loss |-> PercentOf(price, -band),
     target_price |-> PercentOf(price, band),
     confidence |-> [num |-> confidence_E2, den |-> 100], reason |-> reason]

\* IronCondorStrategy.generate_signals: the strikes it leaves
IronCondor_strikes(data) ==
    IF data.bars < options_min_bars THEN strikes
    ELSE IF strikes.short_call_strike = 0
    THEN [strikes EXCEPT !.short_call_strike = PercentOf(data.close, 2),
                         !.long_call_strike  = PercentOf(data.close, 5),
                         !.short_put_strike  = PercentOf(data.close, -2),
                         !.long_put_strike   = PercentOf(data.close, -5)]
    ELSE strikes

\* _should_setup_iron_condor with the volatility band closed at its ends
Mutant_iron_condor_closed_band(k, current_price, volatility_E2) ==
    /\ 15 <= volatility_E2 /\ volatility_E2 <= 35
    /\ k.long_put_strike < current_price /\ current_price < k.short_call_strike

_should_setup_iron_condor(k, current_price, volatility_E2) ==
    /\ 15 < volatility_E2 /\ volatility_E2 < 35
    /\ k.long_put_strike < current_price /\ current_price < k.short_call_strike

\* IronCondorStrategy.generate_signals: the list it returns
IronCondor_generate_signals_result(data, symbol) ==
    LET k == IronCondor_strikes(data)
    IN  IF data.bars < options_min_bars THEN <<>>
        ELSE IF ~can_trade_result(symbol) THEN <<>>
        ELSE IF _should_setup_iron_condor(k, data.close, data.volatility_E2)
        THEN << OptionsSignal(symbol, data.close, 5, 80,
                    [text |-> "Iron Condor setup",
                     calls |-> <<k.short_call_strike, k.long_call_strike>>,
                     puts |-> <<k.short_put_strike, k.long_put_strike>>]) >>
        ELSE <<>>

\* ButterflyStrategy.generate_signals: the strikes it leaves
Butterfly_strikes(data) ==
    IF data.bars < options_min_bars THEN strikes
    ELSE IF strikes.center_strike = 0
    THEN [strikes EXCEPT !.center_strike = data.close,
                         !.wing_strikes = PercentOf(data.close, -95)]
    ELSE strikes

_should_setup_butterfly(k, current_price, volatility_E2) ==
    /\ volatility_E2 < 25
    /\ QuotientBelow(Abs(current_price - k.center_strike), current_price, 2)

\* ButterflyStrategy.generate_signals: the list it returns
Butterfly_generate_signals_result(data, symbol) ==
    LET k == Butterfly_strikes(data)
    IN  IF data.bars < options_min_bars THEN <<>>
        ELSE IF ~can_trade_result(symbol) THEN <<>>
        ELSE IF _should_setup_butterfly(k, data.close, data.volatility_E2)
        THEN << OptionsSignal(symbol, data.close, 5, 75,
                    [text |-> "Butterfly setup",
                     strikes |-> <<k.center_strike - k.wing_strikes, k.center_strike,
                                   k.center_strike + k.wing_strikes>>]) >>
        ELSE <<>>

\* StraddleStrategy.generate_signals: the strikes it leaves
Straddle_strikes(data) ==
    IF data.bars < options_min_bars THEN strikes
    ELSE IF strikes.strike_price = 0
    THEN [strikes EXCEPT !.strike_price = data.close]
    ELSE strikes

_should_setup_straddle(k, current_price, volatility_E2) ==
    /\ volatility_E2 > 30
    /\ QuotientBelow(Abs(current_price - k.strike_price), current_price, 1)

\* StraddleStrategy.generate_signals: the list it returns
Straddle_generate_signals_result(data, symbol) ==
    LET k == Straddle_strikes(data)
    IN  IF data.bars < options_min_bars THEN <<>>
        ELSE IF ~can_trade_result(symbol) THEN <<>>
        ELSE IF _should_setup_straddle(k, data.close, data.volatility_E2)
        THEN << OptionsSignal(symbol, data.close, 10, 70,
                    [text |-> "Straddle setup", strike |-> k.strike_price]) >>
        ELSE <<>>

\* StrangleStrategy.generate_signals: the strikes it leaves
Strangle_strikes(data) ==
    IF data.bars < options_min_bars THEN strikes
    ELSE IF strikes.call_strike = 0
    THEN [strikes EXCEPT !.call_strike = PercentOf(data.close, 5),
                         !.put_strike = PercentOf(data.close, -5)]
    ELSE strikes

_should_setup_strangle(k, current_price, volatility_E2) ==
    /\ volatility_E2 > 25
    /\ k.put_strike < current_price /\ current_price < k.call_strike

\* StrangleStrategy.generate_signals: the list it returns
Strangle_generate_signals_result(data, symbol) ==
    LET k == Strangle_strikes(data)
    IN  IF data.bars < options_min_bars THEN <<>>
        ELSE IF ~can_trade_result(symbol) THEN <<>>
        ELSE IF _should_setup_strangle(k, data.close, data.volatility_E2)
        THEN << OptionsSignal(symbol, data.close, 10, 65,
                    [text |-> "Strangle setup", put |-> k.put_strike,
                     call |-> k.call_strike]) >>
        ELSE <<>>

\* The columns of a series as the caller supplies it: the strategies read 'close'
InputColumns == {"close"}

\* The columns each generate_signals assigns in the series it is given, once
\* the series is long enough; the options strategies assign none
generate_signals_columns(data) ==
    IF data.bars < rsi_period + 1 THEN {} ELSE {"rsi"}

RSIDivergence_generate_signals_columns(data) ==
    IF data.bars < rsi_period + lookback_period THEN {} ELSE {"rsi"}

MACD_generate_signals_columns(data) ==
    IF data.bars < slow_period + signal_period THEN {}
    ELSE {"macd", "macd_signal", "macd_histogram"}

MACDHistogram_generate_signals_columns(data) ==
    IF data.bars < slow_period + signal_period + histogram_momentum_periods THEN {}
    ELSE {"macd_histogram"}

MACDZeroLine_generate_signals_columns(data) ==
    IF data.bars < slow_period + signal_period THEN {} ELSE {"macd"}

can_trade(symbol) ==
    /\ s_last' = Call("can_trade", FALSE, [symbol |-> symbol],
                      can_trade_result(symbol))
    /\ UNCHANGED <<today, rm_vars, pc, enabled, s_positions, trades, instance_vars, series_columns>>

generate_signals(data, symbol) ==
    /\ s_last' = Call("generate_signals", FALSE, [data |-> data, symbol |-> symbol],
                      generate_signals_result(data, symbol))
    /\ series_columns' = InputColumns \cup generate_signals_columns(data)
    /\ UNCHANGED <<today, rm_vars, pc, enabled, s_positions, trades, instance_vars>>

RSIDivergence_generate_signals(data, symbol) ==
    /\ variant = "RSIDivergenceStrategy"
    /\ s_last' = Call("generate_signals", FALSE, [data |-> data, symbol |-> symbol],
                      RSIDivergence_generate_signals_result(data, symbol))
    /\ series_columns' = InputColumns \cup RSIDivergence_generate_signals_columns(data)
    /\ UNCHANGED <<today, rm_vars, pc, enabled, s_positions, trades, instance_vars>>

MACD_generate_signals(data, symbol) ==
    /\ variant = "MACDStrategy"
    /\ s_last' = Call("generate_signals", FALSE, [data |-> data, symbol |-> symbol],
                      MACD_generate_signals_result(data, symbol))
    /\ series_columns' = InputColumns \cup MACD_generate_signals_columns(data)
    /\ UNCHANGED <<today, rm_vars, pc, enabled, s_positions, trades, instance_vars>>

MACDHistogram_generate_signals(data, symbol) ==
    /\ variant = "MACDHistogramStrategy"
    /\ s_last' = Call("generate_signals", FALSE, [data |-> data, symbol |-> symbol],
                      MACDHistogram_generate_signals_result(data, symbol))
    /\ series_columns' = InputColumns \cup MACDHistogram_generate_signals_columns(data)
    /\ UNCHANGED <<today, rm_vars, pc, enabled, s_positions, trades, instance_vars>>

MACDZeroLine_generate_signals(data, symbol) ==
    /\ variant = "MACDZeroLineStrategy"
    /\ s_last' = Call("generate_signals", FALSE, [data |-> data, symbol |-> symbol],
                      MACDZeroLine_generate_signals_result(data, symbol))
    /\ series_columns' = InputColumns \cup MACDZeroLine_generate_signals_columns(data)
    /\ UNCHANGED <<today, rm_vars, pc, enabled, s_positions, trades, instance_vars>>

IronCondor_generate_signals(data, symbol) ==
    /\ variant = "IronCondorStrategy"
    /\ strikes' = IronCondor_strikes(data)
    /\ s_last' = Call("generate_signals", FALSE, [data |-> data, symbol |-> symbol],
                      IronCondor_generate_signals_result(data, symbol))
    /\ series_columns' = InputColumns
    /\ UNCHANGED <<today, rm_vars, pc, enabled, s_positions, trades, variant, config>>

Butterfly_generate_signals(data, symbol) ==
    /\ variant = "ButterflyStrategy"
    /\ strikes' = Butterfly_strikes(data)
    /\ s_last' = Call("generate_signals", FALSE, [data |-> data, symbol |-> symbol],
                      Butterfly_generate_signals_result(data, symbol))
    /\ series_columns' = InputColumns
    /\ UNCHANGED <<today, rm_vars, pc, enabled, s_positions, trades, variant, config>>

Straddle_generate_signals(data, symbol) ==
    /\ variant = "StraddleStrategy"
    /\ strikes' = Straddle_strikes(data)
    /\ s_last' = Call("generate_signals", FALSE, [data |-> data, symbol |-> symbol],
                      Straddle_generate_signals_result(data, symbol))
    /\ series_columns' = InputColumns
    /\ UNCHANGED <<today, rm_vars, pc, enabled, s_positions, trades, variant, config>>

Strangle_generate_signals(data, symbol) ==
    /\ variant = "StrangleStrategy"
    /\ strikes' = Strangle_strikes(data)
    /\ s_last' = Call("generate_signals", FALSE, [data |-> data, symbol |-> symbol],
                      Strangle_generate_signals_result(data, symbol))
    /\ series_columns' = InputColumns
    /\ UNCHANGED <<today, rm_vars, pc, enabled, s_positions, trades, variant, config>>

\* IronCondorStrategy.should_exit_position: the value it returns; age_days is
\* (datetime.now() - position.get('entry_date', datetime.now())).days
IronCondor_should_exit_position_result(position, current_data) ==
    LET current_price == current_data.close
    IN  IF current_price < strikes.long_put_strike
           \/ current_price > strikes.long_call_strike
        THEN TRUE
        ELSE IF position.age_days >= expiration_days - 5 THEN TRUE
        ELSE FALSE

\* ButterflyStrategy.should_exit_position: the value it returns
Butterfly_should_exit_position_result(position, current_data) ==
    QuotientAbove(Abs(current_data.close - strikes.center_strike),
                  strikes.center_strike, 10)

\* StraddleStrategy.should_exit_position: the value it returns
Straddle_should_exit_position_result(position, current_data) ==
    QuotientAbove(Abs(current_data.close - strikes.strike_price),
                  strikes.strike_price, 15)

\* StrangleStrategy.should_exit_position: the value it returns
Strangle_should_exit_position_result(position, current_data) ==
    current_data.close < strikes.put_strike \/ current_data.close > strikes.call_strike

\* should_exit_position of the options strategy the instance is
Options_should_exit_position_result(position, current_data) ==
    CASE variant = "IronCondorStrategy" ->
            IronCondor_should_exit_position_result(position, current_data)
      [] variant = "ButterflyStrategy" ->
            Butterfly_should_exit_position_result(position, current_data)
      [] variant = "StraddleStrategy" ->
            Straddle_should_exit_position_result(position, current_data)
      [] variant = "StrangleStrategy" ->
            Strangle_should_exit_position_result(position, current_data)

Options_should_exit_position(position, current_data) ==
    /\ variant \in OptionsVariants
    /\ s_last' = Call("should_exit_position", FALSE,
                      [position |-> position, current_data |-> current_data],
                      Options_should_exit_position_result(position, current_data))
    /\ series_columns' = InputColumns
    /\ UNCHANGED <<today, rm_vars, pc, enabled, s_positions, trades, instance_vars>>

Strategy_update_position(symbol, position) ==
    /\ s_positions' = [s \in DOMAIN s_positions \cup {symbol} |->
                          IF s = symbol THEN position ELSE s_positions[s]]
    /\ s_last' = Call("update_position", FALSE, [symbol |-> symbol], <<>>)
    /\ UNCHANGED <<today, rm_vars, pc, enabled, trades, instance_vars, series_columns>>

\* A completed trade is recorded with the current time, or with no timestamp
add_trade(trade) ==
    /\ Len(trades) <= MaxTradesPerDay
    /\ trades' = Append(trades, trade)
    /\ s_last' = Call("add_trade", FALSE, <<>>, <<>>)
    /\ UNCHANGED <<today, rm_vars, pc, enabled, s_positions, instance_vars, series_columns>>

Strategy_reset ==
    /\ s_positions' = [s \in {} |-> 0]
    /\ trades' = <<>>
    /\ s_last' = Call("reset", FALSE, <<>>, <<>>)
    /\ UNCHANGED <<today, rm_vars, pc, enabled, instance_vars, series_columns>>

\* The environment: midnight passes
Midnight ==
    /\ today < MaxDay
    /\ today' = today + 1
    /\ UNCHANGED <<rm_vars, pc, strategy_vars>>

-----------------------------------------------------------------------------

\* StrategyConfig() with its defaults, for the fields that are varied
DefaultConfig ==
    [stop_loss_percent |-> config_stop_loss_percent,
     trailing_stop_percent |-> config_trailing_stop_percent]

\* getattr(config, '..._strike', 0) in the options strategies' __init__
NoStrikes ==
    [short_call_strike |-> 0, long_call_strike |-> 0, short_put_strike |-> 0,
     long_put_strike |-> 0, center_strike |-> 0, wing_strikes |-> 0,
     strike_price |-> 0, call_strike |-> 0, put_strike |-> 0]

\* Construction of a RiskManager and of a Strategy of class v with
\* config.enabled = e and the configuration cfg
ConstructedAs(v, e, cfg) ==
    /\ variant = v
    /\ config = cfg
    /\ strikes = NoStrikes
    /\ series_columns = {}
    /\ today = 0
    /\ daily_trades = 0
    /\ daily_pnl = 0
    /\ daily_reset_date = 0
    /\ portfolio_value = 0
    /\ positions = [s \in {} |-> 0]
    /\ last = Call("__init__", FALSE, <<>>, <<>>)
    /\ pc = [c \in Callers |-> "idle"]
    /\ enabled = e
    /\ s_positions = [s \in {} |-> 0]
    /\ trades = <<>>
    /\ s_last = Call("__init__", FALSE, <<>>, <<>>)

\* Construction, with an RSIStrategy of default configuration
Constructed(e) == ConstructedAs("RSIStrategy", e, DefaultConfig)

Init == Constructed(TRUE)

\* The operations other than validate_trade and increment_daily_trades
Others ==
    \/ reset_daily_metrics
    \/ \E symbol \in Symbols, position \in PositionInputs :
            update_position(symbol, position)
    \/ \E symbol \in Symbols : remove_position(symbol)
    \/ \E pnl \in PnlInputs : update_daily_pnl(pnl)
    \/ get_portfolio_risk_metrics
    \/ check_risk_limits
    \/ Midnight

\* One RiskManager driven by one caller, every trade input, the trade counter
\* followed to MaxTradesFollowed
Next ==
    \/ \E a \in TradeInputs : validate_trade(a) /\ UNCHANGED pc
    \/ increment_daily_trades(MaxTradesFollowed) /\ UNCHANGED pc
    \/ Others

Spec == Init /\ [][Next]_vars

\* One RiskManager driven by one caller, the trade counter followed past its cap
NextDaily ==
    \/ \E a \in DailyTradeInputs : validate_trade(a) /\ UNCHANGED pc
    \/ increment_daily_trades(MAX_DAILY_TRADES + MaxOverCap) /\ UNCHANGED pc
    \/ Others

SpecDaily == Init /\ [][NextDaily]_vars

\* Callers that drive one RiskManager concurrently.  Each call is one step (no
\* call of the RiskManager suspends inside); a caller's validate_trade and its
\* increment_daily_trades are two calls, and other callers run between them.
caller_validate(c) ==
    /\ pc[c] = "idle"
    /\ \E a \in DailyTradeInputs : validate_trade(a)
    /\ pc' = [pc EXCEPT ![c] =
                IF last'.res.warnings = <<"Daily trade limit exceeded">>
                THEN "idle" ELSE "validated"]

caller_count(c) ==
    /\ pc[c] = "validated"
    /\ increment_daily_trades(MAX_DAILY_TRADES + MaxOverCap)
    /\ pc' = [pc EXCEPT ![c] = "idle"]

NextCallers ==
    \/ \E c \in Callers : caller_validate(c)
    \/ \E c \in Callers : caller_count(c)
    \/ Midnight

SpecCallers == Init /\ [][NextCallers]_vars

\* One Strategy instance (the RSI variant), enabled or not by its configuration
InitStrategy == \E e \in BOOLEAN : Constructed(e)

NextStrategy ==
    \/ \E symbol \in Symbols : can_trade(symbol)
    \/ \E data \in SeriesInputs, symbol \in Symbols : generate_signals(data, symbol)
    \/ \E symbol \in Symbols, position \in StrategyPositionInputs :
            Strategy_update_position(symbol, position)
    \/ \E trade \in { [timestamp |-> today, pnl |-> 100], [pnl |-> 100] } :
            add_trade(trade)
    \/ Strategy_reset
    \/ Midnight

SpecStrategy == InitStrategy /\ [][NextStrategy]_vars

\* One Strategy instance of any of the variants, enabled or not
InitVariants ==
    \E v \in Variants, e \in BOOLEAN : ConstructedAs(v, e, DefaultConfig)

NextVariants ==
    \/ \E symbol \in TradeSymbols : can_trade(symbol)
    \/ /\ variant = "RSIStrategy"
       /\ \E data \in RSIInputs, symbol \in TradeSymbols : generate_signals(data, symbol)
    \/ \E data \in RSIDivergenceInputs, symbol \in TradeSymbols :
            RSIDivergence_generate_signals(data, symbol)
    \/ \E data \in MACDInputs, symbol \in TradeSymbols :
            MACD_generate_signals(data, symbol)
    \/ \E data \in MACDHistogramInputs, symbol \in TradeSymbols :
            MACDHistogram_generate_signals(data, symbol)
    \/ \E data \in MACDZeroLineInputs, symbol \in TradeSymbols :
            MACDZeroLine_generate_signals(data, symbol)
    \/ \E data \in OptionsInputs, symbol \in TradeSymbols :
            IronCondor_generate_signals(data, symbol)
    \/ \E data \in OptionsInputs, symbol \in TradeSymbols :
            Butterfly_generate_signals(data, symbol)
    \/ \E data \in OptionsInputs, symbol \in TradeSymbols :
            Straddle_generate_signals(data, symbol)
    \/ \E data \in OptionsInputs, symbol \in TradeSymbols :
            Strangle_generate_signals(data, symbol)
    \/ add_trade([timestamp |-> today, pnl |-> 100])
    \/ Strategy_reset
    \/ Midnight

SpecVariants == InitVariants /\ [][NextVariants]_vars

\* The sizing helpers of a Strategy whose configured stop_loss_percent is any of
\* StopLossPercents, and of a RiskManager whose portfolio changes
InitSizing ==
    \E p \in StopLossPercents :
        ConstructedAs("RSIStrategy", TRUE, [DefaultConfig EXCEPT !.stop_loss_percent = p])

NextSizing ==
    \/ \E price \in StrategySizingPrices, risk_amount \in RiskAmounts :
            Strategy_sizing("XYZ", price, risk_amount)
    \/ \E price \in SizingPrices, risk_amount \in RiskAmounts,
          stop_loss_percent \in OptionalPercents :
            calculate_position_size("XYZ", price, risk_amount, stop_loss_percent)
    \/ \E position \in PositionInputs : update_position("XYZ", position)
    \/ remove_position("XYZ")

SpecSizing == InitSizing /\ [][NextSizing]_vars

\* The trailing stops of a Strategy of any of the configurations TrailingConfigs
\* and of a RiskManager, asked for one current price after another
InitTrailing ==
    \E cfg \in TrailingConfigs : ConstructedAs("RSIStrategy", TRUE, cfg)

NextTrailing ==
    \/ \E entry_price \in EntryPrices, current_price \in CurrentPrices,
          signal_type \in Sides :
            Strategy_trailing(entry_price, current_price, signal_type)
    \/ \E entry_price \in EntryPrices, current_price \in CurrentPrices,
          side \in Sides, trailing_percent \in OptionalPercents :
            calculate_trailing_stop(entry_price, current_price, side, trailing_percent)

SpecTrailing == InitTrailing /\ [][NextTrailing]_vars

\* One options strategy instance, enabled or not, evaluating two symbols
InitOptions ==
    \E v \in OptionsVariants, e \in BOOLEAN : ConstructedAs(v, e, DefaultConfig)

NextOptions ==
    \/ \E data \in SpotInputs, symbol \in Symbols :
            IronCondor_generate_signals(data, symbol)
    \/ \E data \in SpotInputs, symbol \in Symbols :
            Butterfly_generate_signals(data, symbol)
    \/ \E data \in SpotInputs, symbol \in Symbols :
            Straddle_generate_signals(data, symbol)
    \/ \E data \in SpotInputs, symbol \in Symbols :
            Strangle_generate_signals(data, symbol)
    \/ \E position \in OpenPositionInputs, current_data \in SpotExitInputs :
            Options_should_exit_position(position, current_data)

SpecOptions == InitOptions /\ [][NextOptions]_vars

-----------------------------------------------------------------------------
(* The claims *)

Res == last.res
Args == last.args
Validated == last.op = "validate_trade"
\* The result of an early return of validate_trade
IsRejection(r) ==
    r.warnings \in { <<"Daily trade limit exceeded">>, <<"Daily loss limit exceeded">> }
\* validate_trade has returned from its full pipeline
Assessed == Validated /\ ~IsRejection(Res)
Range(q) == { q[i] : i \in 1..Len(q) }
\* a <= b for risk percentages
LeqR(a, b) == a.num * b.den <= b.num * a.den
Rank(level) ==
    CASE level = "LOW" -> 0 [] level = "MEDIUM" -> 1 [] level = "HIGH" -> 2
      [] level = "CRITICAL" -> 3
\* Risk percentages from -0.5 to 2.5 in steps of 0.05
RiskGrid == { [num |-> n, den |-> 20] : n \in -10..50 }

\* C1: whenever, after the date reconciliation, the trade count is at its cap
\* or the day's P&L is at or below the loss cap, validate_trade returns a
\* PositionRisk with quantity 0, level CRITICAL, is_valid false and exactly one
\* warning, which names a cap that is breached.
C1_RejectsAtDailyCaps ==
    (Validated /\ (daily_trades >= MAX_DAILY_TRADES \/ daily_pnl <= -MAX_DAILY_LOSS))
    => /\ Res.quantity = 0
       /\ Res.risk_level = "CRITICAL"
       /\ Res.is_valid = FALSE
       /\ Len(Res.warnings) = 1
       /\ \/ Res.warnings[1] = "Daily trade limit exceeded"
             /\ daily_trades >= MAX_DAILY_TRADES
          \/ Res.warnings[1] = "Daily loss limit exceeded"
             /\ daily_pnl <= -MAX_DAILY_LOSS

C1_Witness ==
    /\ Validated
    /\ daily_trades = MAX_DAILY_TRADES
    /\ daily_pnl > -MAX_DAILY_LOSS
    /\ Res.warnings = <<"Daily trade limit exceeded">>

\* The scenario call of C2: validate_trade("XYZ", 100, 500, "BUY"), no stop-loss
\* given, the counters below their caps
ScenarioCall ==
    /\ Assessed
    /\ Args = [symbol |-> "XYZ", quantity |-> 100, price |-> 500, side |-> "BUY",
               stop_loss |-> <<>>]
\* risk_percentage = x, x an integer
RiskIs(r, x) == r.num = x * r.den

\* C2 as stated: the scenario call, made with no existing positions or with a
\* portfolio value of 100,000, returns stop_loss 490, max_loss 1,000,
\* risk_percentage 1.0, level LOW and is_valid true.
C2_Original ==
    (ScenarioCall /\ (DOMAIN positions = {} \/ portfolio_value = 100000)
                  /\ Cardinality(DOMAIN positions) <= 1)
    => /\ Res.stop_loss = 490
       /\ Res.max_loss = 1000
       /\ RiskIs(Res.risk_percentage, 1)
       /\ Res.risk_level = "LOW"
       /\ Res.is_valid = TRUE

\* C2 amended: the scenario call returns stop_loss 490 and max_loss 1,000; with
\* no existing positions the portfolio value is 0 and the result has
\* risk_percentage 0, level LOW and is_valid true; with a portfolio value of
\* 100,000 held in one tracked position it has risk_percentage 1.0, level
\* MEDIUM and is_valid true.
C2_ScenarioResult ==
    ScenarioCall
    => /\ Res.stop_loss = 490
       /\ Res.max_loss = 1000
       /\ DOMAIN positions = {}
            => /\ portfolio_value = 0
               /\ RiskIs(Res.risk_percentage, 0)
               /\ Res.risk_level = "LOW"
               /\ Res.is_valid = TRUE
       /\ (portfolio_value = 100000 /\ Cardinality(DOMAIN positions) = 1)
            => /\ RiskIs(Res.risk_percentage, 1)
               /\ Res.risk_level = "MEDIUM"
               /\ Res.is_valid = TRUE

C2_Witness ==
    /\ ScenarioCall
    /\ portfolio_value = 100000
    /\ Cardinality(DOMAIN positions) = 1
    /\ Res.risk_level = "MEDIUM"

\* C3: every operation on the daily counters reconciles the date before it
\* touches them: on the first call after a rollover increment_daily_trades
\* leaves daily_trades = 1, update_daily_pnl leaves daily_pnl = pnl, and a
\* query reports no breach of a daily cap (the new date's counters are zero).
C3_ReconcilesBeforeUse ==
    /\ (last.op = "increment_daily_trades" /\ last.rolled) => daily_trades = 1
    /\ (last.op = "update_daily_pnl" /\ last.rolled) => daily_pnl = Args[1]
    /\ (last.op = "check_risk_limits" /\ last.rolled)
         => Range(Res) \cap {"Daily loss limit breached",
                             "Daily trade limit breached"} = {}
    /\ (last.op = "get_portfolio_risk_metrics" /\ last.rolled)
         => Range(Res.recommendations)
              \cap {"Consider reducing trading activity due to daily losses",
                    "Approaching daily trade limit"} = {}

\* C4: with concurrent callers that each validate and then count a trade,
\* daily_trades never exceeds max_daily_trades.
C4_CapNeverExceeded == daily_trades <= MAX_DAILY_TRADES

\* C5: for every non-rejected validate_trade result, is_valid is true if and
\* only if the warnings list is empty and the risk level is not CRITICAL.
C5_ValidIffCleanAndNotCritical ==
    Assessed => (Res.is_valid <=> (Res.warnings = <<>> /\ Res.risk_level # "CRITICAL"))

C5_Witness ==
    /\ Assessed
    /\ Res.warnings = <<>>
    /\ Res.risk_level = "CRITICAL"
    /\ Res.is_valid = FALSE

\* The level of risk percentage r by the documented map, the limit being
\* L = MAX_PORTFOLIO_RISK * 100 = 2: r >= L CRITICAL, r >= 0.75 L HIGH,
\* r >= 0.5 L MEDIUM, else LOW
DocumentedLevel(r) ==
    IF r.num >= 2 * r.den THEN "CRITICAL"
    ELSE IF 2 * r.num >= 3 * r.den THEN "HIGH"
    ELSE IF r.num >= r.den THEN "MEDIUM"
    ELSE "LOW"

\* The results that carry a classified risk percentage
Classified ==
    Assessed \/ last.op = "get_portfolio_risk_metrics"

\* C6: the risk level of every classified risk percentage r follows the
\* documented map, and classification is monotonic: a percentage of the grid
\* at or below r has a level at or below that of r, one at or above r a level at
\* or above it.
C6_RiskLevelMap ==
    Classified
    => /\ Res.risk_level = DocumentedLevel(Res.risk_percentage)
       /\ \A g \in RiskGrid :
            /\ LeqR(g, Res.risk_percentage)
                 => Rank(_determine_risk_level(g)) <= Rank(Res.risk_level)
            /\ LeqR(Res.risk_percentage, g)
                 => Rank(Res.risk_level) <= Rank(_determine_risk_level(g))

C6_Witness ==
    /\ Assessed
    /\ Res.risk_level = "HIGH"

\* C7: in a non-rejected validate_trade result with price > 0, if the requested
\* quantity * price exceeds max_position_size the returned quantity is
\* floor(max_position_size / price) and the returned quantity * price is within
\* max_position_size; otherwise the returned quantity is the requested one.
C7_QuantityFitsPositionSize ==
    (Assessed /\ Args.price > 0)
    => IF Args.quantity * Args.price > MAX_POSITION_SIZE
       THEN /\ Res.quantity * Args.price <= MAX_POSITION_SIZE
            /\ (Res.quantity + 1) * Args.price > MAX_POSITION_SIZE
       ELSE Res.quantity = Args.quantity

C7_Witness ==
    /\ Assessed
    /\ Args.quantity = 400
    /\ Args.price = 300
    /\ Res.quantity = 333

\* C8: the max_loss of every non-rejected validate_trade result equals
\* |price - stop_loss| * quantity and is never negative.
C8_MaxLossIsAbsolute ==
    Assessed
    => /\ Res.max_loss = Abs(Args.price - Res.stop_loss) * Res.quantity
       /\ Res.max_loss >= 0

\* The limits that are breached in the current state
BreachedLimits ==
    (IF daily_pnl <= -MAX_DAILY_LOSS THEN {"Daily loss limit breached"} ELSE {})
    \cup (IF daily_trades >= MAX_DAILY_TRADES
          THEN {"Daily trade limit breached"} ELSE {})
    \cup (IF portfolio_value > 0
             /\ SumValues(positions, "max_loss") * 100 > 2 * portfolio_value
          THEN {"Portfolio risk limit breached"} ELSE {})

\* C9: check_risk_limits leaves daily_trades, daily_pnl, daily_reset_date, the
\* position map and portfolio_value unchanged, and returns exactly the breached
\* limits among daily loss, daily trades and portfolio risk.
C9_CheckRiskLimitsIsAQuery ==
    [][check_risk_limits
        => /\ UNCHANGED <<daily_trades, daily_pnl, daily_reset_date, positions,
                          portfolio_value>>
           /\ Range(last'.res) = BreachedLimits
           /\ Len(last'.res) = Cardinality(BreachedLimits)]_vars

C9_Witness ==
    /\ last.op = "check_risk_limits"
    /\ Res = <<"Daily trade limit breached", "Portfolio risk limit breached">>
    /\ daily_trades = MAX_DAILY_TRADES

\* C10: can_trade(symbol) returns false when the strategy already holds an open
\* position in the symbol, and generate_signals proposes no entry into a symbol
\* the strategy already holds.
C10_NoEntryIntoHeldSymbol ==
    /\ (s_last.op = "can_trade" /\ s_last.args.symbol \in DOMAIN s_positions)
         => s_last.res = FALSE
    /\ (s_last.op = "generate_signals" /\ s_last.args.symbol \in DOMAIN s_positions)
         => s_last.res = <<>>

\* The trades of the history that carry the current calendar date
DatedToday == SelectSeq(trades, LAMBDA t : "timestamp" \in DOMAIN t /\ t.timestamp = today)

\* C11: can_trade returns false whenever the strategy is disabled or the trades
\* dated on the current calendar date number max_trades_per_day or more; trades
\* of earlier dates do not count, so once the date has changed an enabled
\* strategy may trade again.
C11_CapCountsTodayOnly ==
    [][/\ (s_last'.op = "can_trade" /\ (~enabled' \/ Len(DatedToday') >= MaxTradesPerDay))
            => s_last'.res = FALSE
       /\ (today' # today /\ enabled') => can_trade_result("XYZ")']_vars

\* The Signals returned by the last Strategy call, if it was generate_signals
\* and returned
Signals ==
    IF s_last.op = "generate_signals" /\ s_last.res # Raised("TypeError")
    THEN s_last.res ELSE <<>>

\* The RSI threshold variant and the MACD variants
IndicatorVariants ==
    { "RSIStrategy", "MACDStrategy", "MACDHistogramStrategy",
      "MACDZeroLineStrategy" }

\* C12: no Signal of quantity 0 is emitted by the RSI or MACD variants: when
\* the sizing helper returns 0 for the candidate entry, generate_signals
\* proposes no trade.
C12_NoZeroQuantitySignal ==
    variant \in IndicatorVariants
    => \A i \in 1..Len(Signals) : Signals[i].quantity > 0

\* The fewest bars with which each variant evaluates its series
MinimumLookback(v) ==
    CASE v = "RSIStrategy" -> rsi_period + 1
      [] v = "RSIDivergenceStrategy" -> rsi_period + lookback_period
      [] v \in {"MACDStrategy", "MACDZeroLineStrategy"} -> slow_period + signal_period
      [] v = "MACDHistogramStrategy" ->
            slow_period + signal_period + histogram_momentum_periods
      [] OTHER -> 20

\* C13: for every variant, generate_signals on a series with fewer bars than the
\* variant's minimum lookback returns the empty list and does not raise.
C13_ShortSeriesGivesNoSignal ==
    (s_last.op = "generate_signals"
        /\ s_last.args.data.bars < MinimumLookback(variant))
    => s_last.res = <<>>

\* A histogram strategy that may trade is handed a bullish turn one bar short
C13_Witness ==
    /\ variant = "MACDHistogramStrategy"
    /\ s_last.op = "generate_signals"
    /\ s_last.args.data.bars = MinimumLookback(variant) - 1
    /\ s_last.args.data.macd_histogram = <<-3000, -1000, 2000>>
    /\ can_trade_result(s_last.args.symbol)
    /\ s_last.res = <<>>

\* The last Strategy call was calculate_position_size
Sized == s_last.op = "calculate_position_size"

\* C14: Strategy.calculate_position_size(price, risk_amount) returns, for every
\* price > 0, an integer q with 0 <= q <= floor(max_position_size / price), and
\* returns 0 whenever the risk per unit, price - stop_loss_price =
\* price * stop_loss_percent / 100, is not positive.
C14_StrategySizeWithinCap ==
    Sized
    => LET q     == s_last.res
           price == s_last.args.price
       IN  /\ price > 0 => /\ q \in Nat
                           /\ q <= config_max_position_size \div price
           /\ price * config.stop_loss_percent <= 0 => q = 0

\* The risk amount allows 166 units of a 300 instrument, the cap allows 33
C14_Witness ==
    /\ Sized
    /\ config.stop_loss_percent = 2
    /\ s_last.args.price = 300
    /\ s_last.args.risk_amount = 1000
    /\ s_last.res = 33

\* floor(a / b) for b > 0
Floor(a, b) == a \div b

Min3(a, b, c) ==
    LET ab == IF a < b THEN a ELSE b IN IF ab < c THEN ab ELSE c

\* The last RiskManager call was calculate_position_size
RMSized == last.op = "calculate_position_size"

\* C15: RiskManager.calculate_position_size returns, for price > 0 and
\* risk_per_unit > 0, max(0, min(floor(risk_amount / risk_per_unit),
\* floor(max_position_size / price), floor(B / risk_per_unit))) with
\* B = portfolio_value * max_portfolio_risk; the result times the price is
\* within max_position_size, its loss at the stop is within B and, for a
\* non-negative risk_amount, within risk_amount; and it returns 0 when
\* risk_per_unit <= 0.
C15_RiskManagerSize ==
    RMSized
    => LET q       == last.res
           price   == last.args.price
           pct     == IF last.args.stop_loss_percent = <<>>
                      THEN DEFAULT_STOP_LOSS_PERCENT
                      ELSE last.args.stop_loss_percent[1]
           rpu_E2  == price * pct
           B_E2    == portfolio_value * MAX_PORTFOLIO_RISK_E2
           risk_E2 == last.args.risk_amount * 100
       IN  /\ rpu_E2 <= 0 => q = 0
           /\ (rpu_E2 > 0 /\ price > 0)
                => /\ LET m == Min3(Floor(risk_E2, rpu_E2),
                                    Floor(MAX_POSITION_SIZE, price),
                                    Floor(B_E2, rpu_E2))
                      IN  q = IF m > 0 THEN m ELSE 0
                   /\ q * price <= MAX_POSITION_SIZE
                   /\ q * rpu_E2 <= B_E2
                   /\ risk_E2 >= 0 => q * rpu_E2 <= risk_E2

\* With portfolio value 40,000 the risk budget of 800 allows 133 units of a 300
\* instrument at the default stop, less than the risk amount and the size cap
C15_Witness ==
    /\ RMSized
    /\ portfolio_value = 40000
    /\ last.args.price = 300
    /\ last.args.risk_amount = 100000
    /\ last.args.stop_loss_percent = <<>>
    /\ last.res = 133

\* The stop of the later of two calls is no looser than the stop of the earlier
NoLooser(side, earlier, later) ==
    IF side = "BUY" THEN later >= earlier ELSE later <= earlier

\* C16: over any sequence of current prices for one open position, the stop
\* calculate_trailing_stop returns after a later price is never looser than the
\* stop it returned after an earlier one (BUY: never lower; SELL: never
\* higher), in the Strategy and in the RiskManager.
C16_TrailingStopRatchets ==
    [][/\ (/\ s_last.op = "calculate_trailing_stop"
           /\ s_last'.op = "calculate_trailing_stop"
           /\ s_last'.args.entry_price = s_last.args.entry_price
           /\ s_last'.args.signal_type = s_last.args.signal_type)
          => NoLooser(s_last.args.signal_type, s_last.res, s_last'.res)
       /\ (/\ last.op = "calculate_trailing_stop"
           /\ last'.op = "calculate_trailing_stop"
           /\ last'.args.entry_price = last.args.entry_price
           /\ last'.args.side = last.args.side
           /\ last'.args.trailing_percent = last.args.trailing_percent)
          => NoLooser(last.args.side, last.res, last'.res)]_vars

\* C17: calculate_trailing_stop returns for BUY a value >= entry * (1 -
\* stop_pct / 100) and for SELL a value <= entry * (1 + stop_pct / 100), for
\* every entry price, current price and non-negative percentages, in the
\* Strategy (stop_pct = config.stop_loss_percent) and in the RiskManager
\* (stop_pct = default_stop_loss_percent).
C17_TrailingStopWithinInitialStop ==
    /\ s_last.op = "calculate_trailing_stop"
         => IF s_last.args.signal_type = "BUY"
            THEN s_last.res * 100
                    >= s_last.args.entry_price * (100 - config.stop_loss_percent)
            ELSE s_last.res * 100
                    <= s_last.args.entry_price * (100 + config.stop_loss_percent)
    /\ last.op = "calculate_trailing_stop"
         => IF last.args.side = "BUY"
            THEN last.res * 100
                    >= last.args.entry_price * (100 - DEFAULT_STOP_LOSS_PERCENT)
            ELSE last.res * 100
                    <= last.args.entry_price * (100 + DEFAULT_STOP_LOSS_PERCENT)

\* The price of a BUY entered at 500 has fallen to 400 (and that of a SELL has
\* risen to 600): both implementations return the initial stop
C17_Witness ==
    /\ s_last.op = "calculate_trailing_stop"
    /\ s_last.args = [entry_price |-> 500, current_price |-> 400, signal_type |-> "BUY"]
    /\ config = DefaultConfig
    /\ s_last.res = 490
    /\ last.op = "calculate_trailing_stop"
    /\ last.args = [entry_price |-> 500, current_price |-> 600, side |-> "SELL",
                    trailing_percent |-> <<5>>]
    /\ last.res = 510

\* The last validate_trade result carries the correlation warning
CorrelationWarned ==
    "Adding this position may increase correlation risk" \in Range(Res.warnings)

\* The exposure of the tracked positions plus the (possibly resized) trade is
\* above portfolio_value * max_correlation_risk
ExposureAboveCorrelationLimit ==
    (SumValues(positions, "value") + Res.quantity * Args.price) * 100
        > portfolio_value * MAX_CORRELATION_RISK_E2

\* C18 as stated: validate_trade includes the correlation warning exactly when
\* the values of the tracked positions plus this trade's value exceed
\* portfolio_value * max_correlation_risk, whatever the number of positions.
C18_Original ==
    Assessed => (CorrelationWarned <=> ExposureAboveCorrelationLimit)

\* C18 amended: validate_trade includes the correlation warning exactly when two
\* or more positions are tracked and their values plus this trade's value
\* exceed portfolio_value * max_correlation_risk.
C18_CorrelationWarning ==
    Assessed
    => (CorrelationWarned
          <=> (Cardinality(DOMAIN positions) > 1 /\ ExposureAboveCorrelationLimit))

C18_Witness ==
    /\ Assessed
    /\ Cardinality(DOMAIN positions) = 2
    /\ ExposureAboveCorrelationLimit
    /\ CorrelationWarned

\* The last call was generate_signals of the RSI threshold strategy
RSIEvaluated == variant = "RSIStrategy" /\ s_last.op = "generate_signals"

QuotesValues(r, line, signal) ==
    /\ Abs(r.MACD - line) * 2 <= MacdUnit \div 10000
    /\ Abs(r.Signal - signal) * 2 <= MacdUnit \div 10000

\* Exactly one signal, of the given direction, quoting the current values
OneCrossoverSignal(res, direction, data) ==
    /\ Len(res) = 1
    /\ res[1].signal_type = direction
    /\ QuotesValues(res[1].reason, data.macd[2], data.macd_signal[2])

\* C20: when can_trade holds and the history is sufficient, the MACD crossover
\* strategy returns exactly one BUY on a bar where previous line <= previous
\* signal and current line > current signal, its rationale quoting the current
\* line and signal values; exactly one SELL where previous line >= previous
\* signal and current line < current signal; and nothing otherwise.
C20_MACDCrossover ==
    [][(/\ variant = "MACDStrategy"
        /\ s_last'.op = "generate_signals"
        /\ MACD_generate_signals(s_last'.args.data, s_last'.args.symbol)
        /\ can_trade_result(s_last'.args.symbol)
        /\ s_last'.args.data.bars >= slow_period + signal_period)
       => LET data    == s_last'.args.data
              bullish == /\ data.macd[1] <= data.macd_signal[1]
                         /\ data.macd[2] > data.macd_signal[2]
              bearish == /\ data.macd[1] >= data.macd_signal[1]
                         /\ data.macd[2] < data.macd_signal[2]
          IN  /\ bullish => OneCrossoverSignal(s_last'.res, "BUY", data)
              /\ bearish => OneCrossoverSignal(s_last'.res, "SELL", data)
              /\ (~bullish /\ ~bearish) => s_last'.res = <<>>]_vars

\* The line goes -0.5 -> 0.3 against the signal -0.2 -> 0.1: one BUY quoting
\* 0.3000 and 0.1000
C20_Witness ==
    /\ variant = "MACDStrategy"
    /\ s_last.op = "generate_signals"
    /\ s_last.args.data.macd = <<-50000, 30000>>
    /\ s_last.args.data.macd_signal = <<-20000, 10000>>
    /\ Len(s_last.res) = 1
    /\ s_last.res[1].signal_type = "BUY"
    /\ s_last.res[1].reason.MACD = 30000
    /\ s_last.res[1].reason.Signal = 10000

\* An Iron Condor strategy with its strikes unset evaluates a series of
\* sufficient history
IronCondorFirstUse ==
    /\ variant = "IronCondorStrategy"
    /\ strikes.short_call_strike = 0
    /\ s_last'.op = "generate_signals"
    /\ IronCondor_generate_signals(s_last'.args.data, s_last'.args.symbol)
    /\ s_last'.args.data.bars >= 20

\* C21: the first generate_signals call of an Iron Condor strategy with unset
\* strikes, on a series of sufficient history with spot S, sets short call =
\* 1.02 S, long call = 1.05 S, short put = 0.98 S, long put = 0.95 S; when the
\* strategy may trade it returns one setup signal if 0.15 < volatility < 0.35
\* and long put < S < short call, and none otherwise.
C21_IronCondorFirstUse ==
    [][IronCondorFirstUse
       => LET S   == s_last'.args.data.close
              vol == s_last'.args.data.volatility_E2
              k   == strikes'
          IN  /\ k.short_call_strike * 100 = 102 * S
              /\ k.long_call_strike * 100 = 105 * S
              /\ k.short_put_strike * 100 = 98 * S
              /\ k.long_put_strike * 100 = 95 * S
              /\ can_trade_result(s_last'.args.symbol)
                   => /\ Len(s_last'.res) <= 1
                      /\ Len(s_last'.res) = 1
                           <=> (/\ 15 < vol /\ vol < 35
                                /\ k.long_put_strike < S
                                /\ S < k.short_call_strike)]_vars

\* Spot 1000, volatility 0.20: strikes 1020/1050 and 980/950, one setup signal
C21_Witness ==
    /\ variant = "IronCondorStrategy"
    /\ s_last.op = "generate_signals"
    /\ s_last.args.data = [bars |-> 20, close |-> 1000, volatility_E2 |-> 20]
    /\ strikes.short_call_strike = 1020
    /\ strikes.long_call_strike = 1050
    /\ strikes.short_put_strike = 980
    /\ strikes.long_put_strike = 950
    /\ Len(s_last.res) = 1
    /\ s_last.res[1].reason.text = "Iron Condor setup"

\* The strikes a Straddle and a Strangle strategy derive from spot S on first use
StraddleStrikesAt(S) == [NoStrikes EXCEPT !.strike_price = S]
StrangleStrikesAt(S) ==
    [NoStrikes EXCEPT !.call_strike = PercentOf(S, 5), !.put_strike = PercentOf(S, -5)]

\* A range-bound strategy (Iron Condor, Butterfly) has just derived its strikes
\* from the spot of the series and returned a setup signal
RangeBoundSetupAtSpot ==
    /\ s_last.op = "generate_signals"
    /\ Len(s_last.res) = 1
    /\ \/ /\ variant = "IronCondorStrategy"
          /\ strikes.short_call_strike = PercentOf(s_last.args.data.close, 2)
       \/ /\ variant = "ButterflyStrategy"
          /\ strikes.center_strike = s_last.args.data.close

\* C22: with default-derived strikes there is no (spot, volatility) pair at
\* which an Iron Condor or Butterfly setup signal and a Straddle or Strangle
\* setup signal are both emitted.
C22_OppositeVolatilityRegimes ==
    RangeBoundSetupAtSpot
    => LET S   == s_last.args.data.close
           vol == s_last.args.data.volatility_E2
       IN  /\ ~_should_setup_straddle(StraddleStrikesAt(S), S, vol)
           /\ ~_should_setup_strangle(StrangleStrikesAt(S), S, vol)

\* The last call was should_exit_position of an options strategy
ExitChecked == variant \in OptionsVariants /\ s_last.op = "should_exit_position"

\* The price p is outside the outer bounds of the strategy's strikes: the long
\* put and long call of the Iron Condor, the wings of the Butterfly, the put and
\* call of the Strangle, and 15% either side of the Straddle's strike
OutsideOuterBounds(p) ==
    CASE variant = "IronCondorStrategy" ->
            p < strikes.long_put_strike \/ p > strikes.long_call_strike
      [] variant = "ButterflyStrategy" ->
            \/ p < strikes.center_strike - strikes.wing_strikes
            \/ p > strikes.center_strike + strikes.wing_strikes
      [] variant = "StrangleStrategy" ->
            p < strikes.put_strike \/ p > strikes.call_strike
      [] variant = "StraddleStrategy" ->
            \/ p * 100 < strikes.strike_price * 85
            \/ p * 100 > strikes.strike_price * 115

\* C23: for each of the four options strategies, should_exit_position returns
\* true when the current price is outside the strategy's outer bounds or the
\* position's age is at least expiration_days - 5, and false otherwise.
C23_ExitOnBoundsOrExpiry ==
    ExitChecked
    => (s_last.res
          <=> (\/ OutsideOuterBounds(s_last.args.current_data.close)
               \/ s_last.args.position.age_days >= expiration_days - 5))

\* What generate_signals of the constructed options strategy would return now
Options_generate_signals_result(data, symbol) ==
    CASE variant = "IronCondorStrategy" -> IronCondor_generate_signals_result(data, symbol)
      [] variant = "ButterflyStrategy"  -> Butterfly_generate_signals_result(data, symbol)
      [] variant = "StraddleStrategy"   -> Straddle_generate_signals_result(data, symbol)
      [] variant = "StrangleStrategy"   -> Strangle_generate_signals_result(data, symbol)

\* The step is an evaluation of the given symbol by an options strategy
EvaluatedSymbol(symbol) ==
    /\ variant \in OptionsVariants
    /\ s_last'.op = "generate_signals"
    /\ s_last'.args.symbol = symbol

\* C24: one options strategy instance evaluates distinct symbols without
\* interference: an evaluation of symbol "ABC" changes neither the signals that
\* generate_signals returns for symbol "XYZ" on any series nor what
\* should_exit_position returns for a position in "XYZ".
C24_SymbolsDoNotInterfere ==
    [][EvaluatedSymbol("ABC")
       => /\ \A data \in SpotInputs :
                Options_generate_signals_result(data, "XYZ")'
                    = Options_generate_signals_result(data, "XYZ")
          /\ \A position \in OpenPositionInputs, current_data \in SpotExitInputs :
                Options_should_exit_position_result(position, current_data)'
                    = Options_should_exit_position_result(position, current_data)]_vars

\* The last call was one that is given a series
GivenSeries == s_last.op \in {"generate_signals", "should_exit_position"}

\* C25: generate_signals and should_exit_position treat the series they are
\* given as read-only: after the call, for every strategy variant, the series
\* has exactly the columns it was supplied with.
C25_SeriesIsReadOnly == GivenSeries => series_columns = InputColumns

\* The divisors of the divisions that the last options call evaluated, in the
\* order of evaluation: the setup checks of the Butterfly and the Straddle
\* divide by the current price once their volatility test has passed, their
\* exit checks divide by the strike, and the other two strategies do not divide
Divisors ==
    LET a == s_last.args
    IN  IF s_last.op = "generate_signals"
        THEN IF a.data.bars < options_min_bars \/ ~can_trade_result(a.symbol) THEN <<>>
             ELSE CASE variant = "ButterflyStrategy" /\ a.data.volatility_E2 < 25 ->
                          << a.data.close >>
                    [] variant = "StraddleStrategy" /\ a.data.volatility_E2 > 30 ->
                          << a.data.close >>
                    [] OTHER -> <<>>
        ELSE IF s_last.op = "should_exit_position"
        THEN CASE variant = "ButterflyStrategy" -> << strikes.center_strike >>
               [] variant = "StraddleStrategy"  -> << strikes.strike_price >>
               [] OTHER -> <<>>
        ELSE <<>>

\* C26: every division is guarded: for every price, zero and negative included,
\* and with the strikes still unset at 0, the setup and exit checks of the
\* options strategies never divide by zero.
C26_NoDivisionByZero ==
    variant \in OptionsVariants => \A i \in DOMAIN Divisors : Divisors[i] # 0

\* The last RiskManager call was one of those that recompute the portfolio value
MetricsUpdated ==
    last.op \in { "update_position", "remove_position",
                  "get_portfolio_risk_metrics", "check_risk_limits" }

\* C27: after every completed update_position, remove_position,
\* get_portfolio_risk_metrics or check_risk_limits, portfolio_value equals the
\* sum of the 'value' fields of the tracked positions, 0 when there are none;
\* and with no tracked positions validate_trade reports risk_percentage 0.
C27_PortfolioValueIsSumOfPositions ==
    /\ MetricsUpdated => portfolio_value = SumValues(positions, "value")
    /\ MetricsUpdated /\ DOMAIN positions = {} => portfolio_value = 0
    /\ Validated /\ DOMAIN positions = {} => Res.risk_percentage = Zero

\* A removal has left one of two tracked positions and the value was recomputed
C27_Witness ==
    /\ last.op = "remove_position"
    /\ Cardinality(DOMAIN positions) = 1
    /\ portfolio_value > 0

\* validate_trade has returned for a trade of non-negative position value while
\* two or more positions of positive total value were tracked
ValidatedWhileTwoPositionsOpen ==
    /\ Validated
    /\ Cardinality(DOMAIN positions) >= 2
    /\ portfolio_value > 0
    /\ Args.quantity * Args.price >= 0

\* C28 as stated: while two or more positions of positive total value are
\* tracked, every validate_trade call for a trade of non-negative position value
\* carries the correlation warning and returns is_valid = false.
C28_Original ==
    ValidatedWhileTwoPositionsOpen => CorrelationWarned /\ ~Res.is_valid

\* C28 amended: while two or more positions of positive total value are
\* tracked, every validate_trade call for a trade of non-negative position value
\* returns is_valid = false, and it carries the correlation warning unless it
\* was rejected by the daily trade or daily loss check, which return their own
\* warning alone.
C28_NoTradeWhileTwoPositionsOpen ==
    ValidatedWhileTwoPositionsOpen
    => /\ ~Res.is_valid
       /\ Assessed => CorrelationWarned
       /\ ~Assessed => ~CorrelationWarned

\* A trade whose only warning is the correlation warning is refused while two
\* positions are open
C28_Witness ==
    /\ ValidatedWhileTwoPositionsOpen
    /\ Res.warnings = <<"Adding this position may increase correlation risk">>
    /\ Res.risk_level = "LOW"
    /\ ~Res.is_valid

\* The step is a generate_signals call made while can_trade(symbol) is false
EvaluatedWhileBarred ==
    /\ today' = today
    /\ s_last'.op = "generate_signals"
    /\ ~can_trade_result(s_last'.args.symbol)

\* C29: for every strategy variant, generate_signals returns no signals, that
\* is the empty list, whenever can_trade(symbol) is false because the strategy
\* is disabled or the per-day trade cap is reached.
C29_NoSignalsUnlessCanTrade ==
    [][EvaluatedWhileBarred => s_last'.res = <<>>]_vars

\* The signal types among the signals the last generate_signals returned
SignalTypes == { Signals[i].signal_type : i \in 1..Len(Signals) }

=============================================================================
